---- MODULE Spec2Model ----
(***************************************************************************)
(* A model of package errs (src/errs.go): the ErrorWrapper value, its      *)
(* methods, DecodeError and the constructors.                              *)
(*                                                                         *)
(* Go values are modelled as they behave: an ErrorWrapper is a VALUE (a    *)
(* record, copied when boxed into an error interface or nested as a cause),*)
(* a map[string]string is a REFERENCE into the heap `maps` (0 is the nil   *)
(* map), so two wrappers holding the same reference share their entries.   *)
(***************************************************************************)
EXTENDS Integers, Sequences, FiniteSets, TLC

VARIABLES
    err,    \* the caller's current error value (type error / ErrorWrapper)
    maps,   \* the heap of map[string]string objects, indexed by reference
    ret     \* the last call: its name, its inputs and what it returned

vars == <<err, maps, ret>>

----------------------------------------------------------------------------
(* Bounds of the model *)

MaxDepth == 3       \* longest cause chain built

(* net/http status codes used by the constructors *)
StatusBadRequest == 400
StatusUnauthorized == 401
StatusPaymentRequired == 402
StatusForbidden == 403
StatusNotFound == 404
StatusUnprocessableEntity == 422
StatusInternalServerError == 500
StatusNotImplemented == 501
StatusBadGateway == 502
StatusServiceUnavailable == 503
StatusGatewayTimeout == 504

(* Inputs the callers draw from *)
Messages == {"m1", "m2"}
ForeignMessages == {"boom", "eof"}
GenericCodes == {-7, 403}
PayloadKeys == {"k"}
PayloadVals == {"v1", "v2"}

EmptyMap == <<>>
PayloadLiterals ==
    { EmptyMap,
      ("k" :> "v1") @@ ("code" :> "999") @@ ("human_message" :> "custom") }

----------------------------------------------------------------------------
(* Values *)

\* the nil error interface
NilErr == [kind |-> "nil"]

\* the outcome of a call that panicked (nil dereference)
Panic == [kind |-> "panic"]

\* an error of another type (errors.New, fmt.Errorf("...%w", cause), ...):
\* not assignable to ErrorWrapper; Unwrap gives its cause, nil if it has none
Foreign(msg, cause) == [kind |-> "foreign", msg |-> msg, Err |-> cause]

\* type ErrorWrapper struct
ErrorWrapper(action, message, payload, code, cause) ==
    [kind |-> "wrapper", Action |-> action, Message |-> message,
     Payload |-> payload, Code |-> code, Err |-> cause]

\* var ew ErrorWrapper
ZeroWrapper == ErrorWrapper("", "", 0, 0, NilErr)

IsWrapper(e) == e.kind = "wrapper"

RECURSIVE Depth(_)
Depth(e) == IF e = NilErr THEN 0 ELSE 1 + Depth(e.Err)

\* the entries of the map a reference denotes (a nil map reads as empty)
Entries(hp, ref) == IF ref = 0 THEN EmptyMap ELSE hp[ref]

\* the maps an error value reaches: the payloads of the wrappers of its chain
RECURSIVE Refs(_)
Refs(e) ==
    IF e = NilErr THEN {}
    ELSE (IF IsWrapper(e) THEN {e.Payload} \ {0} ELSE {}) \cup Refs(e.Err)

\* garbage collection: a map the caller's error no longer reaches is gone;
\* the live maps are renumbered in the order of their references
Rank(S, r) == Cardinality({x \in S : x <= r})

RECURSIVE Renumber(_, _)
Renumber(e, S) ==
    IF e = NilErr THEN e
    ELSE IF IsWrapper(e)
         THEN [e EXCEPT !.Payload = Rank(S, @), !.Err = Renumber(@, S)]
         ELSE [e EXCEPT !.Err = Renumber(@, S)]

\* where a reference points after collection (0: the map is gone, or nil)
NewRef(S, r) == IF r \in S THEN Rank(S, r) ELSE 0

Collect(e, hp) ==
    LET S == Refs(e)
    IN  [w |-> Renumber(e, S),
         hp |-> [i \in 1..Cardinality(S) |-> hp[CHOOSE r \in S : Rank(S, r) = i]],
         S |-> S]

----------------------------------------------------------------------------
(* fmt.Sprint of an int: its decimal digits, with a leading minus sign *)

Digit(d) ==
    CASE d = 0 -> "0" [] d = 1 -> "1" [] d = 2 -> "2" [] d = 3 -> "3"
      [] d = 4 -> "4" [] d = 5 -> "5" [] d = 6 -> "6" [] d = 7 -> "7"
      [] d = 8 -> "8" [] d = 9 -> "9"

RECURSIVE Utoa(_)
Utoa(n) == IF n < 10 THEN Digit(n) ELSE Utoa(n \div 10) \o Digit(n % 10)

Sprint(n) == IF n < 0 THEN "-" \o Utoa(-n) ELSE Utoa(n)

----------------------------------------------------------------------------
(* Pure methods *)

\* (variant: the cause is never consulted)
ErrorStringOwn(e) == IF IsWrapper(e) THEN e.Message ELSE e.msg

\* err.Error() for any non-nil error value
RECURSIVE ErrorString(_)
ErrorString(e) ==
    IF IsWrapper(e)
    THEN IF e.Err # NilErr THEN ErrorString(e.Err) ELSE e.Message
    ELSE e.msg

\* func (err ErrorWrapper) Unwrap() error
Unwrap(e) == e.Err

\* errors.As(e, &ew) with ew of type ErrorWrapper: the first error of the
\* chain e, Unwrap(e), ... that is an ErrorWrapper; false on nil
RECURSIVE ErrorsAs(_)
ErrorsAs(e) ==
    IF e = NilErr THEN [found |-> FALSE, ew |-> ZeroWrapper]
    ELSE IF IsWrapper(e) THEN [found |-> TRUE, ew |-> e]
    ELSE ErrorsAs(Unwrap(e))

\* (variant: a type assertion on the direct cause instead of errors.As)
RECURSIVE DigAssert(_)
DigAssert(e) == IF IsWrapper(e.Err) THEN DigAssert(e.Err) ELSE e

\* (variant: one level down, without the recursive call)
DigOnce(e) ==
    LET as == ErrorsAs(e.Err)
    IN  IF as.found THEN as.ew ELSE e

\* func (err ErrorWrapper) Dig() ErrorWrapper
RECURSIVE Dig(_)
Dig(e) ==
    LET as == ErrorsAs(e.Err)
    IN  IF as.found THEN Dig(as.ew) ELSE e

\* func (err ErrorWrapper) AsJSONResponse() map[string]string
AsJSONResponse(e) == ("action" :> e.Action) @@ ("message" :> e.Message)

\* (variant: a type assertion on err itself instead of errors.As)
DecodeErrorAssert(e) ==
    IF e = NilErr THEN Panic
    ELSE IF IsWrapper(e) THEN e
    ELSE ErrorWrapper("generic", ErrorString(e), 0, StatusInternalServerError, e)

\* func DecodeError(err error) ErrorWrapper
DecodeError(e) ==
    LET as == ErrorsAs(e)
    IN  IF as.found THEN as.ew
        ELSE IF e = NilErr THEN Panic     \* err.Error() on a nil interface
        ELSE ErrorWrapper("generic", ErrorString(e), 0,
                          StatusInternalServerError, e)

----------------------------------------------------------------------------
(* Payload mutation, on a wrapper variable w and the heap hp.  `values` is *)
(* a map reference.  Each gives the pair of the new w and the new heap.    *)

\* err.Payload[key] = value
Upsert(m, key, value) ==
    [x \in DOMAIN m \cup {key} |-> IF x = key THEN value ELSE m[x]]

\* (variant: a key already present keeps its value)
MergeKeep(m, vals) ==
    [x \in DOMAIN m \cup DOMAIN vals |-> IF x \in DOMAIN m THEN m[x] ELSE vals[x]]

\* for k, v := range values { err.Payload[k] = v }
Merge(m, vals) ==
    [x \in DOMAIN m \cup DOMAIN vals |-> IF x \in DOMAIN vals THEN vals[x] ELSE m[x]]

\* (variant: the nil payload is allocated, the value is not stored)
AddPayloadValueDrop(w, hp, key, value) ==
    IF w.Payload = 0
    THEN [w |-> [w EXCEPT !.Payload = Len(hp) + 1], hp |-> Append(hp, EmptyMap)]
    ELSE [w |-> w,
          hp |-> [hp EXCEPT ![w.Payload] = Upsert(hp[w.Payload], key, value)]]

\* func (err *ErrorWrapper) AddPayloadValue(key string, value string)
AddPayloadValue(w, hp, key, value) ==
    IF w.Payload = 0
    THEN [w |-> [w EXCEPT !.Payload = Len(hp) + 1],
          hp |-> Append(hp, key :> value)]
    ELSE [w |-> w,
          hp |-> [hp EXCEPT ![w.Payload] = Upsert(hp[w.Payload], key, value)]]

\* (variant: the payload is replaced by values, whatever it held)
AddPayloadValuesReplace(w, hp, values) ==
    [w |-> [w EXCEPT !.Payload = values], hp |-> hp]

\* (variant: a "human_message" entry is copied into Message as well)
AddPayloadValuesSync(w, hp, values) ==
    LET vals == Entries(hp, values)
        w2 == IF "human_message" \in DOMAIN vals
              THEN [w EXCEPT !.Message = vals["human_message"]] ELSE w
    IN  IF w.Payload = 0
        THEN [w |-> [w2 EXCEPT !.Payload = values], hp |-> hp]
        ELSE [w |-> w2,
              hp |-> [hp EXCEPT ![w.Payload] = Merge(hp[w.Payload], vals)]]

\* func (err *ErrorWrapper) AddPayloadValues(values map[string]string)
AddPayloadValues(w, hp, values) ==
    IF w.Payload = 0
    THEN [w |-> [w EXCEPT !.Payload = values], hp |-> hp]
    ELSE [w |-> w,
          hp |-> [hp EXCEPT ![w.Payload] = Merge(hp[w.Payload], Entries(hp, values))]]

----------------------------------------------------------------------------------------------------------------------------------------
(* The caller's arguments *)

\* a cause when chains are built: nil, or the caller's current error while
\* the chain stays bounded
ChainCauses == {NilErr} \cup (IF Depth(err) < MaxDepth THEN {err} ELSE {})

\* (action, message, err) when chains are built
ChainInputs ==
    { [action |-> "read", message |-> m, err |-> c] : m \in Messages, c \in ChainCauses }

\* (action, message, err) when errors are built flat: no cause, or an error
\* of another type
LeafInputs ==
    { [action |-> "read", message |-> "m1", err |-> NilErr],
      [action |-> "write", message |-> "m2", err |-> Foreign("boom", NilErr)] }

\* a map argument, as the reference and the heap once the caller built it
NilArg == { [ref |-> 0, hp |-> maps] }

\* nil, a map of the caller's error, or a new literal
MapArgs ==
    { [ref |-> r, hp |-> maps] : r \in {0} \cup Refs(err) }
    \cup { [ref |-> Len(maps) + 1, hp |-> Append(maps, lit)] : lit \in PayloadLiterals }

\* what the caller handed over, as it was before the call
Given(arg) == [isnil |-> arg.ref = 0, entries |-> Entries(arg.hp, arg.ref)]

----------------------------------------------------------------------------
(* Constructors.  Every constructor has the body of NewErrorWrapper, the   *)
(* named ones with the code fixed: the struct literal, then                *)
(* AddPayloadValues of the literal {"code", "human_message"}.  The literal *)
(* is a new map: it lives on only if the wrapper retains it.               *)

\* (variant: the constructor stores a copy of the caller's map)
BuildCopy(action, message, code, cause, payload, hp) ==
    LET lit == ("code" :> Sprint(code)) @@ ("human_message" :> message)
        hp1 == IF payload = 0 THEN hp ELSE Append(hp, hp[payload])
        ew == ErrorWrapper(action, message, IF payload = 0 THEN 0 ELSE Len(hp1),
                           code, cause)
        hp2 == Append(hp1, lit)
    IN  AddPayloadValues(ew, hp2, Len(hp2))

Build(action, message, code, cause, payload, hp) ==
    LET ew == ErrorWrapper(action, message, payload, code, cause)
        lit == ("code" :> Sprint(code)) @@ ("human_message" :> message)
        hp2 == Append(hp, lit)
    IN  AddPayloadValues(ew, hp2, Len(hp2))

\* a call of the constructor `name` with status `code`; the caller keeps the
\* returned error.  ret.in.payload is the payload argument after the call.
Construct(name, code, inputs, args) ==
    \E i \in inputs, arg \in args :
        LET action == i.action
            message == i.message
            cause == i.err
            r == Build(action, message, code, cause, arg.ref, arg.hp)
            gc == Collect(r.w, r.hp)
        IN  /\ err' = gc.w
            /\ maps' = gc.hp
            /\ ret' = [op |-> name,
                       in |-> [action |-> action, message |-> message, code |-> code,
                               err |-> Renumber(cause, gc.S),
                               argref |-> arg.ref,
                               payload |-> NewRef(gc.S, arg.ref),
                               given |-> Given(arg)],
                       out |-> gc.w]

NewErrorWrapper ==
    \E code \in GenericCodes : Construct("NewErrorWrapper", code, LeafInputs, MapArgs)

NewBadRequestError ==
    Construct("NewBadRequestError", StatusBadRequest, LeafInputs, MapArgs)

NewUnauthorizedError ==
    Construct("NewUnauthorizedError", StatusUnauthorized, LeafInputs, MapArgs)

NewPaymentRequiredError ==
    Construct("NewPaymentRequiredError", StatusPaymentRequired, LeafInputs, MapArgs)

NewForbiddenError ==
    Construct("NewForbiddenError", StatusForbidden, LeafInputs, MapArgs)

NewNotFoundError ==
    Construct("NewNotFoundError", StatusNotFound, LeafInputs, MapArgs)

NewUnprocessableEntityError ==
    Construct("NewUnprocessableEntityError", StatusUnprocessableEntity, LeafInputs, MapArgs)

NewInternalServerError ==
    Construct("NewInternalServerError", StatusInternalServerError, LeafInputs, MapArgs)

NewNotImplementedError ==
    Construct("NewNotImplementedError", StatusNotImplemented, LeafInputs, MapArgs)

NewBadGatewayError ==
    Construct("NewBadGatewayError", StatusBadGateway, LeafInputs, MapArgs)

NewServiceUnavailableError ==
    Construct("NewServiceUnavailableError", StatusServiceUnavailable, LeafInputs, MapArgs)

NewGatewayTimeoutError ==
    Construct("NewGatewayTimeoutError", StatusGatewayTimeout, LeafInputs, MapArgs)

\* NewErrorWrapper around the caller's current error, with no payload
WrapError ==
    \E code \in GenericCodes : Construct("NewErrorWrapper", code, ChainInputs, NilArg)

CtorNames ==
    { "NewErrorWrapper", "NewBadRequestError", "NewUnauthorizedError",
      "NewPaymentRequiredError", "NewForbiddenError", "NewNotFoundError",
      "NewUnprocessableEntityError", "NewInternalServerError",
      "NewNotImplementedError", "NewBadGatewayError",
      "NewServiceUnavailableError", "NewGatewayTimeoutError" }

----------------------------------------------------------------------------
(* Errors of other types, built by the caller around its current error *)

WrapForeign ==
    \E msg \in ForeignMessages, cause \in ChainCauses :
        LET gc == Collect(Foreign(msg, cause), maps)
        IN  /\ err' = gc.w
            /\ maps' = gc.hp
            /\ ret' = [op |-> "Foreign", in |-> gc.w.Err, out |-> gc.w]

----------------------------------------------------------------------------
(* Calls of the methods, on the caller's wrapper *)

CallError ==
    /\ IsWrapper(err)
    /\ ret' = [op |-> "Error", in |-> err, out |-> ErrorString(err)]
    /\ UNCHANGED <<err, maps>>

CallUnwrap ==
    /\ IsWrapper(err)
    /\ ret' = [op |-> "Unwrap", in |-> err, out |-> Unwrap(err)]
    /\ UNCHANGED <<err, maps>>

CallDig ==
    /\ IsWrapper(err)
    /\ ret' = [op |-> "Dig", in |-> err, out |-> Dig(err)]
    /\ UNCHANGED <<err, maps>>

CallAsJSONResponse ==
    /\ IsWrapper(err)
    /\ ret' = [op |-> "AsJSONResponse", in |-> err, out |-> AsJSONResponse(err)]
    /\ UNCHANGED <<err, maps>>

CallAddPayloadValue ==
    /\ IsWrapper(err)
    /\ \E key \in PayloadKeys, value \in PayloadVals :
        LET r == AddPayloadValue(err, maps, key, value)
        IN  /\ err' = r.w
            /\ maps' = r.hp
            /\ ret' = [op |-> "AddPayloadValue",
                       in |-> [recv |-> err, had |-> Entries(maps, err.Payload),
                               key |-> key, value |-> value],
                       out |-> r.w]

\* a literal the wrapper does not retain is gone after the call
CallAddPayloadValues ==
    /\ IsWrapper(err)
    /\ \E arg \in MapArgs :
        LET r == AddPayloadValues(err, arg.hp, arg.ref)
            gc == Collect(r.w, r.hp)
        IN  /\ err' = gc.w
            /\ maps' = gc.hp
            /\ ret' = [op |-> "AddPayloadValues",
                       in |-> [recv |-> err, had |-> Entries(maps, err.Payload),
                               argref |-> arg.ref, given |-> Given(arg)],
                       out |-> gc.w]

CallDecodeError ==
    \E e \in {NilErr, err} :
        /\ ret' = [op |-> "DecodeError", in |-> e, out |-> DecodeError(e)]
        /\ UNCHANGED <<err, maps>>

----------------------------------------------------------------------------
(* Specifications *)

Init ==
    /\ err = ZeroWrapper
    /\ maps = <<>>
    /\ ret = [op |-> "init", in |-> NilErr, out |-> NilErr]

\* cause chains: wrappers and foreign errors wrapped around one another,
\* decoded and inspected
Next ==
    \/ WrapError
    \/ WrapForeign
    \/ CallError
    \/ CallUnwrap
    \/ CallDig
    \/ CallAsJSONResponse
    \/ CallDecodeError

Spec == Init /\ [][Next]_vars

\* payloads: every constructor with every kind of payload argument, and the
\* methods of the wrapper it returned
NextPayload ==
    \/ NewErrorWrapper
    \/ NewBadRequestError
    \/ NewUnauthorizedError
    \/ NewPaymentRequiredError
    \/ NewForbiddenError
    \/ NewNotFoundError
    \/ NewUnprocessableEntityError
    \/ NewInternalServerError
    \/ NewNotImplementedError
    \/ NewBadGatewayError
    \/ NewServiceUnavailableError
    \/ NewGatewayTimeoutError
    \/ CallAddPayloadValue
    \/ CallAddPayloadValues
    \/ CallError
    \/ CallUnwrap
    \/ CallDig
    \/ CallAsJSONResponse

SpecPayload == Init /\ [][NextPayload]_vars

----------------------------------------------------------------------------
(* Vocabulary of the properties *)

\* the ErrorWrappers of the unwrap chain of e, outermost first
RECURSIVE WrappersOf(_)
WrappersOf(e) ==
    IF e = NilErr THEN <<>>
    ELSE (IF IsWrapper(e) THEN <<e>> ELSE <<>>) \o WrappersOf(e.Err)

\* e heads a chain of wrappers only, each the direct cause of the one before
RECURSIVE PureChain(_)
PureChain(e) == IsWrapper(e) /\ (e.Err = NilErr \/ PureChain(e.Err))

\* the last error of the chain of direct causes
RECURSIVE Bottom(_)
Bottom(e) == IF e.Err = NilErr THEN e ELSE Bottom(e.Err)

\* the status each named constructor documents
Documented ==
    [ NewBadRequestError |-> 400, NewUnauthorizedError |-> 401,
      NewPaymentRequiredError |-> 402, NewForbiddenError |-> 403,
      NewNotFoundError |-> 404, NewUnprocessableEntityError |-> 422,
      NewInternalServerError |-> 500, NewNotImplementedError |-> 501,
      NewBadGatewayError |-> 502, NewServiceUnavailableError |-> 503,
      NewGatewayTimeoutError |-> 504 ]

\* the decimal strings of the codes in use
Decimal ==
    (400 :> "400") @@ (401 :> "401") @@ (402 :> "402") @@ (403 :> "403") @@
    (404 :> "404") @@ (422 :> "422") @@ (500 :> "500") @@ (501 :> "501") @@
    (502 :> "502") @@ (503 :> "503") @@ (504 :> "504") @@
    (-7 :> "-7")

IsCtor == ret.op \in CtorNames
Payload(w) == Entries(maps, w.Payload)

----------------------------------------------------------------------------
(* Cause chains (Spec) *)

\* C1, as stated: Dig on a wrapper whose direct cause is a foreign error
\* returns that wrapper itself, whatever the foreign error unwraps to.
C1_DigForeignReturnsSelf ==
    (ret.op = "Dig" /\ ret.in.Err.kind = "foreign") => ret.out = ret.in

\* C1, amended: Dig on a wrapper whose direct cause is a foreign error
\* returns that wrapper itself exactly when no ErrorWrapper occurs in the
\* foreign error's unwrap chain; when one does, Dig returns the innermost
\* ErrorWrapper of that chain, which is not the receiver.
C1_DigForeignCause ==
    (ret.op = "Dig" /\ ret.in.Err.kind = "foreign") =>
        LET ws == WrappersOf(ret.in.Err)
        IN  IF ws = <<>>
            THEN ret.out = ret.in
            ELSE ret.out = ws[Len(ws)] /\ ret.out # ret.in

\* Dig has returned from a wrapper -> foreign -> wrapper chain
C1_Witness ==
    /\ ret.op = "Dig"
    /\ ret.in.Err.kind = "foreign"
    /\ WrappersOf(ret.in.Err) # <<>>

\* C2: DecodeError is total: for every error value, the nil error included,
\* it returns an ErrorWrapper and does not panic.
C2_DecodeErrorTotal ==
    ret.op = "DecodeError" => (ret.out # Panic /\ IsWrapper(ret.out))

\* C5: for a non-nil err, DecodeError returns the first ErrorWrapper of err's
\* unwrap chain unchanged if there is one, and otherwise the fallback
\* {"generic", err.Error(), 500, err, nil}.
C5_DecodeError ==
    (ret.op = "DecodeError" /\ ret.in # NilErr) =>
        LET ws == WrappersOf(ret.in)
        IN  IF ws # <<>>
            THEN ret.out = ws[1]
            ELSE /\ IsWrapper(ret.out)
                 /\ ret.out.Action = "generic"
                 /\ ret.out.Message = ret.in.msg
                 /\ ret.out.Code = 500
                 /\ ret.out.Err = ret.in
                 /\ ret.out.Payload = 0

\* DecodeError has found a wrapper below a foreign error
C5_Witness ==
    /\ ret.op = "DecodeError"
    /\ ret.in.kind = "foreign"
    /\ WrappersOf(ret.in) # <<>>
    /\ ret.out.Code = 403

\* C6: on a chain of n >= 1 wrappers, each the direct cause of the one
\* before and the last without a cause, Dig returns the last wrapper; for
\* n = 1 that is the receiver.
C6_DigPureChain ==
    (ret.op = "Dig" /\ PureChain(ret.in)) =>
        /\ ret.out = Bottom(ret.in)
        /\ ret.out.Err = NilErr
        /\ (Depth(ret.in) = 1 => ret.out = ret.in)

\* Dig has returned from a chain of three wrappers
C6_Witness ==
    /\ ret.op = "Dig"
    /\ PureChain(ret.in)
    /\ Depth(ret.in) >= 3
    /\ ret.out # ret.in.Err

\* C8: Error() returns the cause's rendered string when there is a cause and
\* the wrapper's own Message when there is none, the zero value included.
C8_Error ==
    ret.op = "Error" =>
        /\ ret.out \in STRING
        /\ (ret.in.Err = NilErr => ret.out = ret.in.Message)
        /\ (ret.in.Err.kind = "foreign" => ret.out = ret.in.Err.msg)
        /\ (ret.in.Err.kind = "wrapper" => ret.out = ErrorString(ret.in.Err))
        /\ (ret.in = ZeroWrapper => ret.out = "")

\* Error() has returned the message of a foreign cause
C8_Witness ==
    /\ ret.op = "Error"
    /\ ret.in.Err.kind = "foreign"
    /\ ret.out = "boom"
    /\ ret.in.Message = "m1"

----------------------------------------------------------------------------
(* Payloads (SpecPayload) *)

\* C3: every constructor returns a wrapper whose Code is the constructor's
\* status and whose payload maps "code" to the decimal string of that Code
\* and "human_message" to the message argument, whatever payload the caller
\* supplied.
C3_CtorCodeAndPayload ==
    IsCtor =>
        /\ IsWrapper(ret.out)
        /\ ret.out = err
        /\ ret.out.Code = (IF ret.op = "NewErrorWrapper"
                           THEN ret.in.code ELSE Documented[ret.op])
        /\ ret.out.Payload # 0
        /\ {"code", "human_message"} \subseteq DOMAIN Payload(ret.out)
        /\ Payload(ret.out)["code"] = Decimal[ret.out.Code]
        /\ Payload(ret.out)["human_message"] = ret.in.message

\* NewNotFoundError has returned, called with a payload that held "code"
C3_Witness ==
    /\ ret.op = "NewNotFoundError"
    /\ ~ret.in.given.isnil
    /\ "code" \in DOMAIN ret.in.given.entries
    /\ ret.in.given.entries["code"] = "999"

\* C4, as stated: the caller's entries are merged in after the
\* constructor's, so a caller-supplied "code" or "human_message" is the value
\* the returned instance holds.
C4_CallerWins ==
    IsCtor =>
        \A k \in {"code", "human_message"} \cap DOMAIN ret.in.given.entries :
            Payload(ret.out)[k] = ret.in.given.entries[k]

\* C4, amended: the constructor's entries are merged in after the caller's:
\* the returned payload holds the caller's keys and "code" and
\* "human_message", the constructor's value under those two keys whether or
\* not the caller supplied them, and the caller's value under every other.
C4_CtorWins ==
    (IsCtor /\ ~ret.in.given.isnil) =>
        LET given == ret.in.given.entries
            got == Payload(ret.out)
        IN  /\ DOMAIN got = DOMAIN given \cup {"code", "human_message"}
            /\ got["code"] = Decimal[ret.in.code]
            /\ got["human_message"] = ret.in.message
            /\ \A k \in DOMAIN given \ {"code", "human_message"} : got[k] = given[k]

\* a constructor has returned, called with a payload that held
\* "human_message", "code" and another key
C4_Witness ==
    /\ ret.op = "NewErrorWrapper"
    /\ "human_message" \in DOMAIN ret.in.given.entries
    /\ ret.in.given.entries["human_message"] = "custom"
    /\ "k" \in DOMAIN ret.in.given.entries

\* C7: each AddPayloadValue / AddPayloadValues leaves the payload equal to
\* what it held overwritten by the written entries: nothing written is
\* dropped, a nil payload is allocated by the first write, AddPayloadValue on
\* a nil payload leaves one entry, and writing an existing key replaces its
\* value without adding an entry.
C7_PayloadWrites ==
    LET had == ret.in.had
        got == Payload(err)
    IN  /\ ret.op = "AddPayloadValue" =>
            /\ err.Payload # 0
            /\ DOMAIN got = DOMAIN had \cup {ret.in.key}
            /\ got[ret.in.key] = ret.in.value
            /\ \A k \in DOMAIN had \ {ret.in.key} : got[k] = had[k]
            /\ (ret.in.recv.Payload = 0 => Cardinality(DOMAIN got) = 1)
            /\ (ret.in.key \in DOMAIN had =>
                    Cardinality(DOMAIN got) = Cardinality(DOMAIN had))
        /\ ret.op = "AddPayloadValues" =>
            LET wr == ret.in.given.entries
            IN  /\ (~ret.in.given.isnil => err.Payload # 0)
                /\ DOMAIN got = DOMAIN had \cup DOMAIN wr
                /\ \A k \in DOMAIN wr : got[k] = wr[k]
                /\ \A k \in DOMAIN had \ DOMAIN wr : got[k] = had[k]

\* AddPayloadValue has written to a wrapper whose payload was nil
C7_Witness ==
    /\ ret.op = "AddPayloadValue"
    /\ ret.in.recv.Payload = 0
    /\ Payload(err) = ("k" :> "v2")

\* C9: no method call changes Code, Action, Message or the cause of the
\* wrapper it is called on, and of the methods only AddPayloadValue and
\* AddPayloadValues change the payload.
C9_MethodsFrame ==
    [][ /\ ret'.op \in {"AddPayloadValue", "AddPayloadValues", "Error", "Unwrap",
                        "Dig", "AsJSONResponse"} =>
            /\ err'.Code = err.Code
            /\ err'.Action = err.Action
            /\ err'.Message = err.Message
            /\ err'.Err = err.Err
        /\ ret'.op \in {"Error", "Unwrap", "Dig", "AsJSONResponse"} =>
            /\ err'.Payload = err.Payload
            /\ maps' = maps ]_vars

\* AddPayloadValues has merged a literal into the payload of a NotFound
\* wrapper that has a cause
C9_Witness ==
    /\ ret.op = "AddPayloadValues"
    /\ "human_message" \in DOMAIN ret.in.given.entries
    /\ err.Code = 404
    /\ err.Err # NilErr

\* C10: a constructor stores the caller's map itself: the returned
\* instance's Payload is the map passed in, which after the call holds the
\* call's "code" and "human_message"; so an instance that already held that
\* map reads the later call's values.
C10_PayloadAliased ==
    [][ (ret'.op \in CtorNames /\ ~ret'.in.given.isnil) =>
            /\ ret'.in.payload # 0
            /\ ret'.out.Payload = ret'.in.payload
            /\ (IsWrapper(err) /\ err.Payload = ret'.in.argref) =>
                 LET first == Entries(maps', ret'.in.payload)
                 IN  /\ first["code"] = Decimal[ret'.in.code]
                     /\ first["human_message"] = ret'.in.message ]_vars

\* a constructor has returned, called with the map an earlier constructor
\* call with another code and message had stored
C10_Witness ==
    /\ IsCtor
    /\ ret.in.argref # 0
    /\ "human_message" \in DOMAIN ret.in.given.entries
    /\ ret.in.given.entries["human_message"] \in Messages \ {ret.in.message}
    /\ ret.in.given.entries["code"] \in {"400", "504"} \ {Decimal[ret.in.code]}

====
